---------------------------- MODULE Spec2Model ----------------------------
(***************************************************************************)
(* raspend: worker threads, the shared data lock, the shutdown flag, the   *)
(* HTTP boundary and RaspendApplication.run(), plus the calendar schedule  *)
(* of ScheduledWorkerThread.                                               *)
(*                                                                         *)
(* Spec      : the application (main thread, workers, HTTP server thread,  *)
(*             request handler threads), untimed.                          *)
(* SpecSched : one ScheduledWorkerThread against a wall clock.             *)
(***************************************************************************)
EXTENDS Integers, Sequences, FiniteSets, TLC

VARIABLES shutdownFlag, dataLock, sharedDict,
          mainPc, mainErr, httpd, signals, port, wkind, wpc,
          httpPc, rpc, snapshot,
          now, sPc, repetitionType, repetitionFactor, scheduledStart,
          factors, t0, timeout, lastRead, fired, firedAt,
          commandMap, request, response, executed, invoked,
          workerList, lastCall

\* shutdownFlag  threading.Event of the application: TRUE once set
\* dataLock      threading.Lock: Free, or the thread between acquire() and release()
\* sharedDict    the shared dictionary; the handlers keep two entries of it equal
\* mainPc        position of the main thread in RaspendApplication.run
\* mainErr       the exception that left run(), "none" otherwise
\* httpd         local variable httpd of run(): "unbound", "None" or "thread"
\* signals       number of SIGINT/SIGTERM delivered so far
\* port          self.__port is not None
\* wkind         class of each worker in self.__workers
\* wpc           position of each worker thread in its run()
\* httpPc        position of the server thread in serve_forever ("closing":
\*               inside server_close(); "closed": the thread has terminated)
\* rpc           position of each request handler thread
\* snapshot      what a data read has serialised so far
\* now           wall clock (seconds)
\* sPc           position of the clocked worker thread in run()
\* factors       <<weeks, days, hours, minutes, seconds>> held by run()
\* t0, timeout   current target and the seconds handed to shutdownEvent.wait
\*               (fixed-interval worker: clock at the start of the wait, and
\*               waitTimeout)
\* lastRead      last value datetime.now() returned to run() (fixed-interval
\*               worker: clock when invoke() returned last)
\* fired         targets for which invoke() was called, in order
\* firedAt       clock at the start of each of those invoke() calls
\* commandMap    the CommandMap given to the request handler (or None)
\* request       the request handled last
\* response      status sent for it, or the exception that left the handler
\* executed      what cmd.execute(args) did during that request
\* invoked       calls of command callables made during that request
\* workerList    self.__workers while the application is set up
\* lastCall      the create...Thread call made last and how it ended

sharedVars == <<shutdownFlag, dataLock, sharedDict>>
mainVars   == <<mainPc, mainErr, httpd, signals>>
cfgVars    == <<port, wkind>>
httpVars   == <<httpPc, rpc, snapshot>>
appVars    == <<mainVars, cfgVars, wpc, httpVars>>
schedVars  == <<now, sPc, repetitionType, repetitionFactor, scheduledStart,
                factors, t0, timeout, lastRead, fired, firedAt>>
cmdVars    == <<commandMap, request, response, executed, invoked>>
setupVars  == <<workerList, lastCall>>
vars       == <<sharedVars, appVars, schedVars, cmdVars, setupVars>>

---------------------------------------------------------------------------
\* Bounds of the model.
MaxRequests == 1
MaxSignals == 2

\* self.__workers holds two workers, of any two classes.
Workers  == {1, 2}
Requests == 1..MaxRequests

Free == <<"free", 0>>
WorkerTid(w)  == <<"worker", w>>
RequestTid(r) == <<"request", r>>

WorkerKinds == {"WorkerThread", "ScheduledWorkerThread", "PublishDataThread",
                "ScheduledPublishDataThread", "DataAcquisitionThread"}

\* The two calendar-scheduled classes: their loop test is the wait itself.
IsScheduled(k) == k \in {"ScheduledWorkerThread", "ScheduledPublishDataThread"}

\* DataAcquisitionThread.run has no prepare() call.
HasPrepare(k) == k # "DataAcquisitionThread"

\* The inter-iteration wait of each class: shutdownEvent.wait(t) is ended by
\* set(); time.sleep(t) is not.
WaitKind(k) == IF k = "DataAcquisitionThread" THEN "sleep" ELSE "event"

RequestKinds == {"data", "datapath", "cmds", "cmd", "post"}

\* Requests that read under the lock (onGetRootDataPath, onGetDetailedDataPath,
\* onGetCmds); the first two read sharedDict.
IsLockedRead(k) == k \in {"data", "datapath", "cmds"}
IsDataRead(k)   == k \in {"data", "datapath"}
IsCommand(k)    == k \in {"cmd", "post"}

---------------------------------------------------------------------------
\* threading.Lock

AcquireNoBlock(t) == dataLock' = t

Acquire(t) == dataLock = Free /\ dataLock' = t

ReleaseKeepsLock(t) == dataLock' = dataLock

Release(t) == dataLock' = Free

---------------------------------------------------------------------------
\* Command callables, commands and requests

\* Names a request can bring as query parameters or as members of "Args";
\* the first two are parameter names of the callables below.
\* "U+20AC" stands for the one-character key that is the euro sign, a text
\* outside latin-1.
Keys == {"onoff", "object", "volume", "U+20AC"}
ArgValues == {"on", "off"}
Absent == "-"

\* A mapping from keys to values: Absent marks a key that is not in it.
\* Only onoff is given both values.
ArgMaps ==
    {m \in [Keys -> ArgValues \cup {Absent}] :
        \A k \in Keys \ {"onoff"} : m[k] \in {"on", Absent}}
EmptyMap == [k \in Keys |-> Absent]
KeysOf(m) == {k \in Keys : m[k] # Absent}

\* Bound methods an application hands to addCommand, and their
\* inspect.signature: each parameter is required, optional (has a default)
\* or positional-only (as in list.append(object, /)).
Callables == {"switchDoorBell", "getCurrentState", "ring", "append"}

Signature(fn) ==
    CASE fn = "switchDoorBell"  -> [EmptyMap EXCEPT !["onoff"] = "required"]
      [] fn = "getCurrentState" -> EmptyMap
      [] fn = "ring"            -> [EmptyMap EXCEPT !["onoff"] = "optional"]
      [] fn = "append"          -> [EmptyMap EXCEPT !["object"] = "posonly"]

\* CallbackFunction.getName: variable name of the object, ".", method name
getName(fn) ==
    CASE fn = "switchDoorBell"  -> "theDoorBell.switchDoorBell"
      [] fn = "getCurrentState" -> "theDoorBell.getCurrentState"
      [] fn = "ring"            -> "theDoorBell.ring"
      [] fn = "append"          -> "theList.append"

\* Command names a request can carry: the four above and two that no
\* callable has, one of them with the euro sign in it.
RequestNames ==
    {getName(fn) : fn \in Callables}
        \cup {"theDoorBell.selfDestruct", "theDoorBell.U+20AC"}

\* Texts of a request that str.encode('latin-1', 'strict') refuses
NotLatin1 == {"U+20AC", "theDoorBell.U+20AC"}

\* A Command object: its name, the callable it wraps, and which addCommand
\* call created it.
NoCommand == [name |-> "-", fn |-> "-", id |-> 0]

\* What a request hands to cmd.execute: a dict, or another JSON value
\* ("Args": [...]).
DictArgs(m) == [type |-> "dict", map |-> m]
ListArgs    == [type |-> "list", map |-> EmptyMap]

\* Keys of the shared dictionary and the segments of a data path. "data"
\* is a key an application may use like any other.
Segs == {"data", "a"}

\* Places of a shared dictionary nested as in sharedDict[groupId][sensorId]:
\* the dictionary itself, its keys, and the keys of the dictionaries in it.
Addr == {<<>>} \cup {<<s>> : s \in Segs} \cup {<<s, t>> : s, t \in Segs}

\* What is at a place: nothing, a dictionary, or one of two numbers.
NodeKinds == {"none", "dict", "v1", "v2"}

\* The JSON value at a place, by the places below it
NoData == [q \in Addr |-> "none"]

\* extra: the payload of a POST has members of the caller's own, next to
\* "Command" and inside it. segments: the path of a GET /data/... after
\* "/data/", split at "/".
NoRequest ==
    [method |-> "none", path |-> "-", contentType |-> "-", shape |-> "-",
     hasName |-> FALSE, name |-> "-", hasArgs |-> FALSE, args |-> DictArgs(EmptyMap),
     extra |-> FALSE, segments |-> <<>>]

NoValue == <<"-", EmptyMap>>

\* The JSON object of a POST: Command.Name, Command.Args if present, the
\* caller's own members if present, Command.Result if present.
NoPayload ==
    [name |-> "-", hasArgs |-> FALSE, args |-> DictArgs(EmptyMap), extra |-> FALSE,
     hasResult |-> FALSE, result |-> NoValue]

\* No status line sent, no exception: and the command name, the exception
\* and the key named by it that the message of a status line carries, and
\* the JSON value of the body: of a command request (body), of a data
\* request (data).
NoResponse ==
    [status |-> 0, raised |-> "none", name |-> "-", exc |-> "-", key |-> "-",
     body |-> NoPayload, data |-> NoData]

NotExecuted ==
    [ran |-> FALSE, cmd |-> NoCommand, args |-> DictArgs(EmptyMap),
     raised |-> "none", key |-> "-", value |-> NoValue]

IdleCmd ==
    /\ commandMap = [isNone |-> FALSE, entries |-> <<>>]
    /\ request = NoRequest
    /\ response = NoResponse
    /\ executed = NotExecuted
    /\ invoked = <<>>

\* hasSetter: the handler has a method setSharedDict.
NoCall ==
    [method |-> "none", handlerOk |-> FALSE, hasSetter |-> FALSE, repetitionType |-> "-",
     repetitionFactor |-> 1, sharedDictSet |-> FALSE, raised |-> "none", returned |-> 0]

IdleSetup ==
    /\ workerList = <<>>
    /\ lastCall = NoCall

---------------------------------------------------------------------------
\* Initial states

InitShared ==
    /\ shutdownFlag = FALSE
    /\ dataLock = Free
    /\ sharedDict = [a |-> 0, b |-> 0]

IdleApp ==
    /\ mainPc = "install"
    /\ mainErr = "none"
    /\ httpd = "unbound"
    /\ signals = 0
    /\ wpc = [w \in Workers |-> "notstarted"]
    /\ httpPc = "notstarted"
    /\ rpc = [r \in Requests |-> "idle"]
    /\ snapshot = [r \in Requests |-> [a |-> 0, b |-> 0]]

IdleSched ==
    /\ now = 0
    /\ sPc = "notstarted"
    /\ repetitionType = "DAILY"
    /\ repetitionFactor = 1
    /\ scheduledStart = 0
    /\ factors = <<0, 0, 0, 0, 0>>
    /\ t0 = 0
    /\ timeout = 0
    /\ lastRead = 0
    /\ fired = <<>>
    /\ firedAt = <<>>

Init ==
    /\ InitShared
    /\ IdleApp
    /\ port \in BOOLEAN
    /\ wkind \in [Workers -> WorkerKinds]
    /\ IdleSched
    /\ IdleCmd
    /\ IdleSetup

---------------------------------------------------------------------------
\* RaspendApplication.run, main thread

\* Thread.join() returns once the thread has terminated.
WorkerJoinedNoWait(w) == wpc[w] # "notstarted"

\* worker.join() returns: run() has returned or was left by an exception
WorkerJoined(w) == wpc[w] \in {"done", "raised"}

\* Positions inside the try block, and inside the except handler.
InTry    == mainPc \in {"httpdNone", "startHttp", "startWorkers", "sleep"}
InExcept == mainPc \in {"setFlag", "join", "joinHttp"}

AllStarted == \A w \in Workers : wpc[w] # "notstarted"

NextToStart == CHOOSE w \in Workers :
                  /\ wpc[w] = "notstarted"
                  /\ \A v \in Workers : v < w => wpc[v] # "notstarted"

NextToJoin == CHOOSE w \in Workers :
                  /\ ~WorkerJoined(w)
                  /\ \A v \in Workers : v < w => WorkerJoined(v)

\* initServiceShutdownHandling(): from here on a signal raises
\* ServiceShutdownException in the main thread.
InstallHandlers ==
    /\ mainPc = "install"
    /\ mainPc' = "httpdNone"
    /\ UNCHANGED <<sharedVars, mainErr, httpd, signals, cfgVars, wpc, httpVars, schedVars, cmdVars, setupVars>>

\* httpd = None
AssignHttpdNone ==
    /\ mainPc = "httpdNone"
    /\ httpd' = "None"
    /\ mainPc' = "startHttp"
    /\ UNCHANGED <<sharedVars, mainErr, signals, cfgVars, wpc, httpVars, schedVars, cmdVars, setupVars>>

\* if self.__port != None: httpd = RaspendHTTPServerThread(...); httpd.start()
StartHttp ==
    /\ mainPc = "startHttp"
    /\ IF port
         THEN httpd' = "thread" /\ httpPc' = "check"
         ELSE UNCHANGED <<httpd, httpPc>>
    /\ mainPc' = "startWorkers"
    /\ UNCHANGED <<sharedVars, mainErr, signals, cfgVars, wpc, rpc, snapshot, schedVars, cmdVars, setupVars>>

FirstPcSkipsPrepare(k) == "check"

\* First position of a worker's run().
FirstPc(k) == IF HasPrepare(k) THEN "prepAcq" ELSE "check"

\* for worker in self.__workers: worker.start()
StartWorker ==
    /\ mainPc = "startWorkers"
    /\ ~AllStarted
    /\ wpc' = [wpc EXCEPT ![NextToStart] = FirstPc(wkind[NextToStart])]
    /\ UNCHANGED <<sharedVars, mainVars, cfgVars, httpVars, schedVars, cmdVars, setupVars>>

\* An unexpected error while starting the threads: the constructor of the
\* HTTP server thread cannot bind the port (OSError), or worker.start()
\* raises RuntimeError (thread already started, no new thread available).
\* `except Exception` prints the error and run() returns without a
\* teardown ("failed"); the clause neither sets the flag nor joins anything.
StartupRaises ==
    /\ \/ mainPc = "startHttp" /\ port
       \/ mainPc = "startWorkers" /\ ~AllStarted
    /\ mainPc' = "failed"
    /\ UNCHANGED <<sharedVars, mainErr, httpd, signals, cfgVars, wpc, httpVars, schedVars, cmdVars, setupVars>>

\* while True: time.sleep(0.5)
EnterMainLoop ==
    /\ mainPc = "startWorkers"
    /\ AllStarted
    /\ mainPc' = "sleep"
    /\ UNCHANGED <<sharedVars, mainErr, httpd, signals, cfgVars, wpc, httpVars, schedVars, cmdVars, setupVars>>

\* SIGINT/SIGTERM: serviceShutdownHandler raises ServiceShutdownException in
\* the main thread, wherever it is. Inside the try block the except clause
\* takes it; inside the except clause nothing does, and it leaves run().
Signal ==
    /\ signals < MaxSignals
    /\ InTry \/ InExcept
    /\ signals' = signals + 1
    /\ IF InTry
         THEN mainPc' = "setFlag" /\ UNCHANGED mainErr
         ELSE mainPc' = "raised" /\ mainErr' = "ServiceShutdownException"
    /\ UNCHANGED <<sharedVars, httpd, cfgVars, wpc, httpVars, schedVars, cmdVars, setupVars>>

EventSetClears == shutdownFlag' = FALSE

\* threading.Event.set() on self.__shutdownFlag, the one Event every worker
\* and the HTTP server were given
EventSet == shutdownFlag' = TRUE

\* self.__shutdownFlag.set()
SetShutdownFlag ==
    /\ mainPc = "setFlag"
    /\ EventSet
    /\ mainPc' = "join"
    /\ UNCHANGED <<dataLock, sharedDict, mainErr, httpd, signals, cfgVars, wpc,
                   httpVars, schedVars, cmdVars, setupVars>>

\* for worker in self.__workers: worker.join()
\* join() of a thread that was never started raises RuntimeError.
JoinWorkers ==
    /\ mainPc = "join"
    /\ IF \A w \in Workers : WorkerJoined(w)
         THEN mainPc' = "joinHttp" /\ UNCHANGED mainErr
         ELSE /\ wpc[NextToJoin] = "notstarted"
              /\ mainPc' = "raised"
              /\ mainErr' = "RuntimeError"
    /\ UNCHANGED <<sharedVars, httpd, signals, cfgVars, wpc, httpVars, schedVars, cmdVars, setupVars>>

\* if httpd: httpd.join()
JoinHttp ==
    /\ mainPc = "joinHttp"
    /\ CASE httpd = "unbound" ->
              mainPc' = "raised" /\ mainErr' = "UnboundLocalError"
         [] httpd = "None" ->
              mainPc' = "returned" /\ UNCHANGED mainErr
         [] httpd = "thread" ->
              httpPc = "closed" /\ mainPc' = "returned" /\ UNCHANGED mainErr
    /\ UNCHANGED <<sharedVars, httpd, signals, cfgVars, wpc, httpVars, schedVars, cmdVars, setupVars>>

---------------------------------------------------------------------------
\* Worker threads: WorkerThread.run, PublishDataThread.run,
\* DataAcquisitionThread.run and the loops of the two scheduled classes.

\* self.accessLock.acquire() before prepare()
PrepareAcquire(w) ==
    /\ wpc[w] = "prepAcq"
    /\ Acquire(WorkerTid(w))
    /\ wpc' = [wpc EXCEPT ![w] = "prepare"]
    /\ UNCHANGED <<shutdownFlag, sharedDict, mainVars, cfgVars, httpVars, schedVars, cmdVars, setupVars>>

\* self.threadHandler.prepare(); self.accessLock.release(). The scheduled
\* classes then compute t0 and timeout and go to their first wait.
PrepareRelease(w) ==
    /\ wpc[w] = "prepare"
    /\ Release(WorkerTid(w))
    /\ wpc' = [wpc EXCEPT ![w] = IF IsScheduled(wkind[w]) THEN "wait" ELSE "check"]
    /\ UNCHANGED <<shutdownFlag, sharedDict, mainVars, cfgVars, httpVars, schedVars, cmdVars, setupVars>>

\* prepare() raises: run() has no try around it, the exception ends the
\* thread, and the release() after the call is not reached.
PrepareRaises(w) ==
    /\ wpc[w] = "prepare"
    /\ wpc' = [wpc EXCEPT ![w] = "raised"]
    /\ UNCHANGED <<sharedVars, mainVars, cfgVars, httpVars, schedVars, cmdVars, setupVars>>

\* A loop test that does not look at the flag.
LoopTestIgnoresFlag(w) ==
    /\ wpc[w] = "check"
    /\ wpc' = [wpc EXCEPT ![w] = "invAcq"]
    /\ UNCHANGED <<sharedVars, mainVars, cfgVars, httpVars, schedVars, cmdVars, setupVars>>

\* while not self.shutdownEvent.is_set():
LoopTest(w) ==
    /\ wpc[w] = "check"
    /\ wpc' = [wpc EXCEPT ![w] = IF shutdownFlag THEN "done" ELSE "invAcq"]
    /\ UNCHANGED <<sharedVars, mainVars, cfgVars, httpVars, schedVars, cmdVars, setupVars>>

\* self.accessLock.acquire() before invoke()
InvokeAcquire(w) ==
    /\ wpc[w] = "invAcq"
    /\ Acquire(WorkerTid(w))
    /\ wpc' = [wpc EXCEPT ![w] = "invoke1"]
    /\ UNCHANGED <<shutdownFlag, sharedDict, mainVars, cfgVars, httpVars, schedVars, cmdVars, setupVars>>

\* invoke() / acquireData() / publishData(): a handler body that updates two
\* entries of the shared dictionary, one after the other, to a new common
\* value.
InvokeWrite1(w) ==
    /\ wpc[w] = "invoke1"
    /\ sharedDict' = [sharedDict EXCEPT !.a = 1 - sharedDict.b]
    /\ wpc' = [wpc EXCEPT ![w] = "invoke2"]
    /\ UNCHANGED <<shutdownFlag, dataLock, mainVars, cfgVars, httpVars, schedVars, cmdVars, setupVars>>

\* second write, return from the handler, self.accessLock.release()
InvokeWrite2(w) ==
    /\ wpc[w] = "invoke2"
    /\ sharedDict' = [sharedDict EXCEPT !.b = sharedDict.a]
    /\ Release(WorkerTid(w))
    /\ wpc' = [wpc EXCEPT ![w] = "wait"]
    /\ UNCHANGED <<shutdownFlag, mainVars, cfgVars, httpVars, schedVars, cmdVars, setupVars>>

\* invoke() / acquireData() / publishData() raises, before or between its
\* writes: the exception ends the thread, and the release() after the call
\* is not reached.
InvokeRaises(w) ==
    /\ wpc[w] \in {"invoke1", "invoke2"}
    /\ wpc' = [wpc EXCEPT ![w] = "raised"]
    /\ UNCHANGED <<sharedVars, mainVars, cfgVars, httpVars, schedVars, cmdVars, setupVars>>

\* The wait ends because its period has elapsed. Event.wait returns False
\* only while the flag is unset; time.sleep runs its full time whatever
\* the flag is.
WaitTimeout(w) ==
    /\ wpc[w] = "wait"
    /\ WaitKind(wkind[w]) = "event" => ~shutdownFlag
    /\ wpc' = [wpc EXCEPT ![w] = IF IsScheduled(wkind[w]) THEN "invAcq" ELSE "check"]
    /\ UNCHANGED <<sharedVars, mainVars, cfgVars, httpVars, schedVars, cmdVars, setupVars>>

\* Event.wait returns True: the flag is set (on entry, or by set() during
\* the wait). A scheduled worker leaves its loop; the others go to the
\* loop test.
WaitSignaled(w) ==
    /\ wpc[w] = "wait"
    /\ WaitKind(wkind[w]) = "event"
    /\ shutdownFlag
    /\ wpc' = [wpc EXCEPT ![w] = IF IsScheduled(wkind[w]) THEN "done" ELSE "check"]
    /\ UNCHANGED <<sharedVars, mainVars, cfgVars, httpVars, schedVars, cmdVars, setupVars>>

---------------------------------------------------------------------------
\* HTTP boundary: StoppableHttpServer.serve_forever and the request threads
\* (ThreadingMixIn: one thread per accepted request).

\* while not self.shutdownFlag.is_set(): ... ; self.server_close()
HttpLoopTest ==
    /\ httpPc = "check"
    /\ httpPc' = IF shutdownFlag THEN "closing" ELSE "handle"
    /\ UNCHANGED <<sharedVars, mainVars, cfgVars, wpc, rpc, snapshot, schedVars, cmdVars, setupVars>>

\* A request thread has ended: its handler returned, or an exception left it
\* (process_request_thread catches it and reports it).
RequestEnded(r) == rpc[r] \in {"idle", "done", "raised"}

\* self.server_close(): ThreadingMixIn.server_close closes the socket and
\* joins every request thread. The class attribute it consults is
\* block_on_close (True); the _block_on_close = False that __init__ sets is
\* not read by it, and daemon_threads is False, so every request thread is
\* joined. Then serve_forever and the thread's run() return.
HttpServerClose ==
    /\ httpPc = "closing"
    /\ \A r \in Requests : RequestEnded(r)
    /\ httpPc' = "closed"
    /\ UNCHANGED <<sharedVars, mainVars, cfgVars, wpc, rpc, snapshot, schedVars, cmdVars, setupVars>>

\* handle_request() returns after the socket timeout without a request.
HttpHandleTimeout ==
    /\ httpPc = "handle"
    /\ httpPc' = "check"
    /\ UNCHANGED <<sharedVars, mainVars, cfgVars, wpc, rpc, snapshot, schedVars, cmdVars, setupVars>>

\* do_GET / do_POST: where the request thread goes first for each request.
FirstRequestPc(k) ==
    CASE IsDataRead(k) -> "acqData"
      [] k = "cmds"    -> "acqCmds"
      [] IsCommand(k)  -> "exec"

NextRequest == CHOOSE r \in Requests :
                  /\ rpc[r] = "idle"
                  /\ \A q \in Requests : q < r => rpc[q] # "idle"

\* handle_request() accepts a request and hands it to a new thread
\* (do_GET / do_POST dispatch on the path).
HttpAccept(k) ==
    /\ httpPc = "handle"
    /\ \E r \in Requests : rpc[r] = "idle"
    /\ rpc' = [rpc EXCEPT ![NextRequest] = FirstRequestPc(k)]
    /\ httpPc' = "check"
    /\ UNCHANGED <<sharedVars, mainVars, cfgVars, wpc, snapshot, schedVars, cmdVars, setupVars>>

\* self.dataLock.acquire() in onGetRootDataPath, onGetDetailedDataPath, onGetCmds
ReqAcquire(r) ==
    /\ rpc[r] \in {"acqData", "acqCmds"}
    /\ Acquire(RequestTid(r))
    /\ rpc' = [rpc EXCEPT ![r] = IF rpc[r] = "acqData" THEN "read1" ELSE "list"]
    /\ UNCHANGED <<shutdownFlag, sharedDict, mainVars, cfgVars, wpc, httpPc,
                   snapshot, schedVars, cmdVars, setupVars>>

\* json.dumps walks the dictionary entry by entry.
ReqRead1(r) ==
    /\ rpc[r] = "read1"
    /\ snapshot' = [snapshot EXCEPT ![r].a = sharedDict.a]
    /\ rpc' = [rpc EXCEPT ![r] = "read2"]
    /\ UNCHANGED <<sharedVars, mainVars, cfgVars, wpc, httpPc, schedVars, cmdVars, setupVars>>

ReqRead2(r) ==
    /\ rpc[r] = "read2"
    /\ snapshot' = [snapshot EXCEPT ![r].b = sharedDict.b]
    /\ Release(RequestTid(r))
    /\ rpc' = [rpc EXCEPT ![r] = "done"]
    /\ UNCHANGED <<shutdownFlag, sharedDict, mainVars, cfgVars, wpc, httpPc,
                   schedVars, cmdVars, setupVars>>

\* onGetRootDataPath / onGetDetailedDataPath: json.dumps raises TypeError on
\* a value it cannot serialise; the statement is not inside a try, so the
\* exception leaves the method before self.dataLock.release().
ReqReadRaises(r) ==
    /\ rpc[r] = "read2"
    /\ rpc' = [rpc EXCEPT ![r] = "raised"]
    /\ UNCHANGED <<sharedVars, mainVars, cfgVars, wpc, httpPc, snapshot, schedVars, cmdVars, setupVars>>

\* onGetCmds: describe every command, self.dataLock.release()
ReqListCmds(r) ==
    /\ rpc[r] = "list"
    /\ Release(RequestTid(r))
    /\ rpc' = [rpc EXCEPT ![r] = "done"]
    /\ UNCHANGED <<shutdownFlag, sharedDict, mainVars, cfgVars, wpc, httpPc,
                   snapshot, schedVars, cmdVars, setupVars>>

\* onGetCmd / do_POST: result = cmd.execute(args); the command body returns.
\* Neither method touches self.dataLock.
ReqExecReturn(r) ==
    /\ rpc[r] = "exec"
    /\ rpc' = [rpc EXCEPT ![r] = "done"]
    /\ UNCHANGED <<sharedVars, mainVars, cfgVars, wpc, httpPc, snapshot, schedVars, cmdVars, setupVars>>

---------------------------------------------------------------------------
Next ==
    \/ InstallHandlers
    \/ AssignHttpdNone
    \/ StartHttp
    \/ StartWorker
    \/ StartupRaises
    \/ EnterMainLoop
    \/ Signal
    \/ SetShutdownFlag
    \/ JoinWorkers
    \/ JoinHttp
    \/ \E w \in Workers : PrepareAcquire(w)
    \/ \E w \in Workers : PrepareRelease(w)
    \/ \E w \in Workers : PrepareRaises(w)
    \/ \E w \in Workers : LoopTest(w)
    \/ \E w \in Workers : InvokeAcquire(w)
    \/ \E w \in Workers : InvokeWrite1(w)
    \/ \E w \in Workers : InvokeWrite2(w)
    \/ \E w \in Workers : InvokeRaises(w)
    \/ \E w \in Workers : WaitTimeout(w)
    \/ \E w \in Workers : WaitSignaled(w)
    \/ HttpLoopTest
    \/ HttpServerClose
    \/ HttpHandleTimeout
    \/ \E k \in RequestKinds : HttpAccept(k)
    \/ \E r \in Requests : ReqAcquire(r)
    \/ \E r \in Requests : ReqRead1(r)
    \/ \E r \in Requests : ReqRead2(r)
    \/ \E r \in Requests : ReqReadRaises(r)
    \/ \E r \in Requests : ReqListCmds(r)
    \/ \E r \in Requests : ReqExecReturn(r)

Spec == Init /\ [][Next]_vars


---------------------------------------------------------------------------
\* Properties of the application (Spec)

\* A worker is inside prepare() or invoke(); a request thread is inside a
\* read of sharedDict.
WorkerInHandler(w) == wpc[w] \in {"prepare", "invoke1", "invoke2"}
WorkerInInvoke(w)  == wpc[w] \in {"invoke1", "invoke2"}
WorkerInLoop(w)    == wpc[w] \in {"check", "invAcq", "invoke1", "invoke2", "wait"}
RequestInRead(r)   == rpc[r] \in {"read1", "read2"}

InHandlerOrRead ==
    {WorkerTid(w) : w \in {v \in Workers : WorkerInHandler(v)}}
        \cup {RequestTid(r) : r \in {q \in Requests : RequestInRead(q)}}

\* C1: at most one thread at a time is inside a worker's prepare(), a
\* worker's invoke() or a GET /data or GET /data/<path> read, and that
\* thread holds the data lock; a read never sees the dictionary between the
\* two writes of an invoke(), and the document it returns holds no half of
\* an invoke().
C1_MutualExclusion ==
    /\ Cardinality(InHandlerOrRead) <= 1
    /\ \A t \in InHandlerOrRead : dataLock = t
    /\ \A r \in Requests : RequestInRead(r) => sharedDict.a = sharedDict.b
    /\ \A r \in Requests : rpc[r] = "done" => snapshot[r].a = snapshot[r].b

\* C1 witness: a worker is between its two writes while the other worker
\* and a data read are waiting for the lock.
C1_Witness ==
    \E w, v \in Workers : \E r \in Requests :
        /\ wpc[w] = "invoke2"
        /\ sharedDict.a # sharedDict.b
        /\ wpc[v] = "invAcq"
        /\ rpc[r] = "acqData"

\* C2 (as claimed): a command body never runs while a worker is inside
\* invoke().
C2_CommandNotDuringInvoke ==
    \A r \in Requests : \A w \in Workers :
        ~(rpc[r] = "exec" /\ WorkerInInvoke(w))

\* C7 (as claimed): once the flag is set, no worker's inter-iteration wait
\* is ended by its period running out; the signal ends it.
C7_WaitEndsOnSignal ==
    [][\A w \in Workers : ~(shutdownFlag /\ WaitTimeout(w))]_vars

\* C8 (as claimed, the part a finite run decides): after a shutdown request
\* run() is not left by an exception; it goes on to join every thread and
\* return.
C8_ShutdownCompletes == signals > 0 => mainPc # "raised"

\* C9 (as claimed): the HTTP server has not left its serve loop while a
\* worker is still inside its loop.
C9_HttpStopsLast ==
    httpPc = "closed" => \A w \in Workers : ~WorkerInLoop(w)

\* C9 (amended): run() joins the HTTP thread last: when it waits for the
\* HTTP thread, and when it has returned, every worker has terminated, and
\* after it returned the HTTP thread it started has terminated too.
C9_HttpJoinedLast ==
    /\ mainPc \in {"joinHttp", "returned"}
          => \A w \in Workers : wpc[w] \in {"done", "raised"}
    /\ (mainPc = "returned" /\ httpd = "thread") => httpPc = "closed"

\* C9 witness: every worker is joined and run() is waiting for an HTTP
\* thread that has not yet left its serve loop.
C9_Witness ==
    /\ mainPc = "joinHttp"
    /\ httpd = "thread"
    /\ httpPc = "handle"
    /\ \A w \in Workers : wpc[w] = "done"

\* C10 (as claimed): a shutdown request after the first has no further
\* effect on run().
C10_SecondSignalNoEffect ==
    [][(signals >= 1 /\ signals' = signals + 1) => UNCHANGED <<mainPc, mainErr>>]_vars

\* C11: the shutdown flag is one object (one variable read by every worker
\* and by the HTTP server); no step resets it, so it changes from unset to
\* set at most once, and the step of run() past flag.set() leaves it set.
C11_FlagNeverReset ==
    [][/\ shutdownFlag => shutdownFlag'
       /\ (mainPc = "setFlag" /\ mainPc' = "join") => shutdownFlag']_vars

\* C11 witness: run() has returned long after the flag was set; both
\* workers and the HTTP server have seen it and ended, and it is still set.
C11_Witness ==
    /\ shutdownFlag
    /\ mainPc = "returned"
    /\ httpPc = "closed"
    /\ \A w \in Workers : wpc[w] = "done"

\* How far a worker is with prepare(): 0 not started, 1 asking for the lock
\* before prepare(), 2 inside prepare(), 3 past it.
PrepareStage(pc) ==
    CASE pc = "notstarted" -> 0
      [] pc = "prepAcq"    -> 1
      [] pc = "prepare"    -> 2
      [] OTHER             -> 3

\* One step of worker w keeps the order start, acquire, prepare(), loop:
\* prepare() is entered only with the lock just taken, never skipped and
\* never entered again, and invoke() is entered only after it.
PrepareOrderStep(w) ==
    /\ PrepareStage(wpc'[w]) \in {PrepareStage(wpc[w]), PrepareStage(wpc[w]) + 1}
    /\ wpc'[w] = "prepare" => dataLock' = WorkerTid(w)
    /\ wpc'[w] = "invoke1" => wpc[w] \in {"invAcq", "invoke1"}

C13_NoLockWhileWaiting ==
    \A w \in Workers :
        /\ wpc[w] = "wait" => dataLock # WorkerTid(w)
        /\ dataLock = WorkerTid(w) => WorkerInHandler(w)

\* C13 witness: one worker is parked in its wait after an invoke() while
\* the other worker holds the lock inside its own invoke().
C13_Witness ==
    \E w, v \in Workers :
        /\ wpc[w] = "wait"
        /\ sharedDict.a = 1
        /\ wpc[v] = "invoke1"
        /\ dataLock = WorkerTid(v)

\* C30 (as claimed): a worker whose prepare() or invoke() ended by raising
\* does not hold the lock.
C30_LockReleasedOnException ==
    \A w \in Workers : wpc[w] = "raised" => dataLock # WorkerTid(w)


---------------------------------------------------------------------------
\* ScheduledWorkerThread against the wall clock (SpecSched)

\* Bounds of the clocked model.
MaxFactor == 2
MaxPastPeriods == 2
MaxAlignDrift == 2
MaxInvokes == 3

ScheduleRepetitionTypes == {"WEEKLY", "DAILY", "HOURLY", "MINUTELY", "SECOND"}

\* datetime.timedelta(days, weeks, hours, minutes, seconds), in seconds
Timedelta(days, weeks, hours, minutes, seconds) ==
    ((((weeks * 7 + days) * 24 + hours) * 60 + minutes) * 60) + seconds

getTimedeltaFactorsNoSecond(type, factor) ==
    <<IF type = "WEEKLY" THEN factor ELSE 0,
      IF type = "DAILY" THEN factor ELSE 0,
      IF type = "HOURLY" THEN factor ELSE 0,
      IF type = "MINUTELY" THEN factor ELSE 0,
      0>>

\* weeks, days, hours, minutes, seconds: five independent tests
getTimedeltaFactors(type, factor) ==
    LET weeks   == IF type = "WEEKLY" THEN factor ELSE 0
        days    == IF type = "DAILY" THEN factor ELSE 0
        hours   == IF type = "HOURLY" THEN factor ELSE 0
        minutes == IF type = "MINUTELY" THEN factor ELSE 0
        seconds == IF type = "SECOND" THEN factor ELSE 0
    IN  <<weeks, days, hours, minutes, seconds>>

DeltaZero(f) == 0

\* the timedelta run() adds, from the factors it holds
Delta(f) == Timedelta(f[2], f[1], f[3], f[4], f[5])

NextTargetFromNow(target, clock, delta) == clock + delta

\* t1 = t0 + timedelta(...)
NextTarget(target, clock, delta) == target + delta

TotalSecondsShort(target, clock) == target - clock - 1

\* timeout = (t1 - datetime.now()).total_seconds()
TotalSeconds(target, clock) == target - clock

AlignContinueAtZero(tmo) == tmo <= 0

\* while timeout < 0.0:
AlignContinue(tmo) == tmo < 0

WaitSecondsAbs(tmo) == IF tmo > 0 THEN tmo ELSE 0 - tmo

\* How long shutdownEvent.wait(timeout) takes to time out: a timeout that
\* is not positive makes it return at once.
WaitSeconds(tmo) == IF tmo > 0 THEN tmo ELSE 0

WaitReturnsTrueNever == FALSE

\* shutdownEvent.wait(timeout) returns True: the flag is set
WaitReturnsTrue == shutdownFlag

SchedTid == <<"worker", 0>>

\* One length of the period chosen in Init, for drawing scheduledStart and
\* the handler durations around it.
UnitSeconds(type) ==
    CASE type = "WEEKLY"   -> 604800
      [] type = "DAILY"    -> 86400
      [] type = "HOURLY"   -> 3600
      [] type = "MINUTELY" -> 60
      [] type = "SECOND"   -> 1

PeriodSeconds == UnitSeconds(repetitionType) * repetitionFactor

\* scheduledStart relative to the clock at thread start (0): in the past by
\* k periods plus r, or in the future.
StartChoices(P) ==
    {0 - (k * P + r) : k \in 0..MaxPastPeriods, r \in {x \in {0, 1, P - 1} : x < P}}
        \cup {1, P}

\* How long an invoke() call takes.
Durations(P) == {0, 1, P, 2 * P + 1}

\* How late after its timeout a wait returns.
Jitter == {0, 1}

InitSched ==
    /\ InitShared
    /\ IdleApp
    /\ port = FALSE
    /\ wkind = [w \in Workers |-> "ScheduledWorkerThread"]
    /\ now = 0
    /\ sPc = "prepare"
    /\ repetitionType \in ScheduleRepetitionTypes
    /\ repetitionFactor \in 1..MaxFactor
    /\ scheduledStart \in StartChoices(UnitSeconds(repetitionType) * repetitionFactor)
    /\ factors = <<0, 0, 0, 0, 0>>
    /\ t0 = 0
    /\ timeout = 0
    /\ lastRead = 0
    /\ fired = <<>>
    /\ firedAt = <<>>
    /\ IdleCmd
    /\ IdleSetup

schedCfg == <<repetitionType, repetitionFactor, scheduledStart>>

\* acquire, prepare(), release; weeks, ... = self.getTimedeltaFactors();
\* tNow = datetime.now(); t0 = self.scheduledStart; timeout = (t0 - tNow)
SchedPrepare ==
    /\ sPc = "prepare"
    /\ dataLock = Free
    /\ factors' = getTimedeltaFactors(repetitionType, repetitionFactor)
    /\ lastRead' = now
    /\ t0' = scheduledStart
    /\ timeout' = TotalSeconds(scheduledStart, now)
    /\ sPc' = "align"
    /\ UNCHANGED <<sharedVars, appVars, cmdVars, setupVars, schedCfg, now, fired, firedAt>>

\* one pass of the alignment loop; the clock is read again in each pass
SchedAlignStep ==
    /\ sPc = "align"
    /\ AlignContinue(timeout)
    /\ \E e \in {0, 1} :
         /\ now + e <= MaxAlignDrift
         /\ now' = now + e
    /\ t0' = NextTarget(t0, now', Delta(factors))
    /\ timeout' = TotalSeconds(t0', now')
    /\ lastRead' = now'
    /\ UNCHANGED <<sharedVars, appVars, cmdVars, setupVars, schedCfg, sPc, factors, fired, firedAt>>

\* the alignment loop ends; the worker calls shutdownEvent.wait(timeout)
SchedAlignDone ==
    /\ sPc = "align"
    /\ ~AlignContinue(timeout)
    /\ sPc' = "wait"
    /\ UNCHANGED <<sharedVars, appVars, cmdVars, setupVars, schedCfg, now, factors, t0, timeout,
                   lastRead, fired, firedAt>>

\* wait(timeout) returns False: the timeout has run out (at once when it is
\* not positive) and the flag was not set in the meantime
SchedWaitTimeout ==
    /\ sPc = "wait"
    /\ ~WaitReturnsTrue
    /\ Len(fired) < MaxInvokes
    /\ \E j \in Jitter : now' = now + WaitSeconds(timeout) + j
    /\ sPc' = "acquire"
    /\ UNCHANGED <<sharedVars, appVars, cmdVars, setupVars, schedCfg, factors, t0, timeout, lastRead,
                   fired, firedAt>>

\* wait(timeout) returns True: the worker leaves its loop
SchedWaitSignaled ==
    /\ sPc = "wait"
    /\ WaitReturnsTrue
    /\ sPc' = "done"
    /\ UNCHANGED <<sharedVars, appVars, cmdVars, setupVars, schedCfg, now, factors, t0, timeout,
                   lastRead, fired, firedAt>>

\* self.accessLock.acquire(); invoke() starts
SchedInvokeBegin ==
    /\ sPc = "acquire"
    /\ Acquire(SchedTid)
    /\ fired' = Append(fired, t0)
    /\ firedAt' = Append(firedAt, now)
    /\ sPc' = "invoke"
    /\ UNCHANGED <<shutdownFlag, sharedDict, appVars, cmdVars, setupVars, schedCfg, now, factors, t0,
                   timeout, lastRead>>

\* invoke() returns after d seconds; release; t1 = t0 + timedelta(...);
\* timeout = (t1 - datetime.now()); t0 = t1
SchedInvokeEnd ==
    /\ sPc = "invoke"
    /\ Release(SchedTid)
    /\ \E d \in Durations(PeriodSeconds) : now' = now + d
    /\ t0' = NextTarget(t0, now', Delta(factors))
    /\ timeout' = TotalSeconds(t0', now')
    /\ lastRead' = now'
    /\ sPc' = "wait"
    /\ UNCHANGED <<shutdownFlag, sharedDict, appVars, cmdVars, setupVars, schedCfg, factors, fired, firedAt>>

\* the main thread sets the shutdown flag (application.py, except clause)
SchedShutdown ==
    /\ ~shutdownFlag
    /\ sPc # "done"
    /\ shutdownFlag' = TRUE
    /\ UNCHANGED <<dataLock, sharedDict, appVars, cmdVars, setupVars, schedVars>>

NextSched ==
    \/ SchedPrepare
    \/ SchedAlignStep
    \/ SchedAlignDone
    \/ SchedWaitTimeout
    \/ SchedWaitSignaled
    \/ SchedInvokeBegin
    \/ SchedInvokeEnd
    \/ SchedShutdown

SpecSched == InitSched /\ [][NextSched]_vars


---------------------------------------------------------------------------
\* Properties of the clocked ScheduledWorkerThread (SpecSched)

\* C3: the targets of any two consecutive invoke() calls differ by exactly
\* one period, however long invoke() took and however late the wait
\* returned.
C3_ConsecutiveTargets ==
    \A i \in 1..(Len(fired) - 1) : fired[i + 1] - fired[i] = PeriodSeconds

\* C3 witness: three invoke() calls, the second started later than the
\* third slot's target (the first call overran two periods).
C3_Witness ==
    /\ Len(fired) = 3
    /\ firedAt[2] > fired[3]

\* Whole periods and remainder by which scheduledStart lies before the
\* clock value the alignment loop read last.
PastPeriods == (lastRead - scheduledStart) \div PeriodSeconds
PastRemainder == (lastRead - scheduledStart) % PeriodSeconds

AtFirstWait == sPc = "wait" /\ fired = <<>>

\* C4 (as claimed): with scheduledStart in the past by k periods plus r,
\* 0 <= r < period, the first target is scheduledStart + (k+1)*period and
\* lies in (now, now + period].
C4_FirstTargetAfterNow ==
    (AtFirstWait /\ scheduledStart <= lastRead) =>
        /\ t0 = scheduledStart + (PastPeriods + 1) * PeriodSeconds
        /\ lastRead < t0
        /\ t0 <= lastRead + PeriodSeconds

\* C4 (amended): with now the clock value the alignment loop read last and
\* scheduledStart in the past by k periods plus r, the first target is
\* scheduledStart + (k+1)*period when r > 0 and scheduledStart + k*period,
\* which is now, when r = 0; it lies in [now, now + period): the target is
\* advanced while target < now.
C4_FirstTarget ==
    (AtFirstWait /\ scheduledStart <= lastRead) =>
        /\ t0 = scheduledStart +
                  (IF PastRemainder = 0 THEN PastPeriods ELSE PastPeriods + 1)
                      * PeriodSeconds
        /\ lastRead <= t0
        /\ t0 < lastRead + PeriodSeconds

\* C4 witness: scheduledStart two or more whole periods in the past, the
\* loop has run and stopped on a target equal to the clock.
C4_Witness ==
    /\ AtFirstWait
    /\ PastPeriods >= 2
    /\ PastRemainder = 0
    /\ t0 = lastRead

\* C5: getTimedeltaFactors gives repetitionFactor for the one unit of the
\* repetition type and 0 for the four others.
C5_TimedeltaFactors ==
    sPc # "prepare" =>
        factors =
            CASE repetitionType = "WEEKLY"   -> <<repetitionFactor, 0, 0, 0, 0>>
              [] repetitionType = "DAILY"    -> <<0, repetitionFactor, 0, 0, 0>>
              [] repetitionType = "HOURLY"   -> <<0, 0, repetitionFactor, 0, 0>>
              [] repetitionType = "MINUTELY" -> <<0, 0, 0, repetitionFactor, 0>>
              [] repetitionType = "SECOND"   -> <<0, 0, 0, 0, repetitionFactor>>

\* C5 witness: the factors of a two-second schedule.
C5_Witness ==
    /\ sPc = "wait"
    /\ repetitionType = "SECOND"
    /\ repetitionFactor = 2
    /\ factors = <<0, 0, 0, 0, 2>>

\* C6: while the flag is set and the worker is in its wait, the worker
\* does not go on to invoke(): it stays in the wait or leaves the loop,
\* and no target is fired.
C6_NoInvokeAfterSignal ==
    [][(sPc = "wait" /\ shutdownFlag) => (sPc' \in {"wait", "done"} /\ fired' = fired)]_vars

\* C6 witness: the worker has fired, then left its loop on the signal
\* while waiting for a target that was never fired.
C6_Witness ==
    /\ sPc = "done"
    /\ shutdownFlag
    /\ Len(fired) >= 1
    /\ \A i \in 1..Len(fired) : fired[i] # t0

\* C28: when invoke() returns after the next target has passed, the wait
\* for that target returns at once and invoke() is called for it; every
\* return of invoke() moves the target on by exactly one period, and each
\* call is for the target one period after that of the call before.
C28_CatchUpOneSlotAtATime ==
    [][/\ (sPc = "wait" /\ timeout <= 0 /\ sPc' = "acquire")
              => (now' - now) \in Jitter
       /\ (sPc = "invoke" /\ sPc' = "wait") => t0' = t0 + PeriodSeconds
       /\ Len(fired') > Len(fired)
              => /\ fired' = Append(fired, t0)
                 /\ Len(fired) > 0 => t0 = fired[Len(fired)] + PeriodSeconds]_vars

\* C28 witness: the first invoke() overran two targets; the second and
\* the third call were made for these two targets after they had passed,
\* and the worker now waits for a fourth target that lies ahead.
C28_Witness ==
    /\ Len(fired) = 3
    /\ firedAt[2] > fired[3]
    /\ firedAt[3] > fired[3]
    /\ sPc = "wait"
    /\ timeout > 0
    /\ t0 = fired[3] + PeriodSeconds


---------------------------------------------------------------------------
\* Command registry and HTTP command dispatch (SpecCmd)

\* Bound of the command model: addCommand calls.
MaxCommands == 2

Command(fn, id) == [name |-> getName(fn), fn |-> fn, id |-> id]

CommandMapAddAppends(entries, cmd) == Append(entries, cmd)

\* self[Command.getName()] = Command: assignment to a dict key. A key that
\* is present keeps its place and gets the new value; a new key is added
\* at the end.
CommandMapAdd(entries, cmd) ==
    IF \E i \in 1..Len(entries) : entries[i].name = cmd.name
      THEN [i \in 1..Len(entries) |->
                IF entries[i].name = cmd.name THEN cmd ELSE entries[i]]
      ELSE Append(entries, cmd)

CommandMapGetAny(entries, name) ==
    IF Len(entries) > 0 THEN entries[1] ELSE NoCommand

\* self.commandMap.get(name): the value of the key, None without it
CommandMapGet(entries, name) ==
    IF \E i \in 1..Len(entries) : entries[i].name = name
      THEN entries[CHOOSE i \in 1..Len(entries) : entries[i].name = name]
      ELSE NoCommand

\* Number of the next addCommand call.
NextId ==
    1 + (IF commandMap.entries = <<>> THEN 0
         ELSE CHOOSE n \in 1..MaxCommands :
                 /\ \E i \in 1..Len(commandMap.entries) : commandMap.entries[i].id = n
                 /\ \A i \in 1..Len(commandMap.entries) : commandMap.entries[i].id <= n)

hasParameterAny(fn, key) == TRUE

\* CallbackFunction.hasParameter: key in signature.parameters
hasParameter(fn, key) == Signature(fn)[key] # Absent

\* Keys of args that invoke() refuses.
Undeclared(fn, m) == {k \in KeysOf(m) : ~hasParameter(fn, k)}

\* self.__function(**args): Python binds the keyword arguments before the
\* body runs. The call raises TypeError, and the body does not run, when a
\* key is no parameter, when a key names a positional-only parameter, or
\* when a parameter without default gets no value.
Binds(fn, m) ==
    /\ \A k \in KeysOf(m) : Signature(fn)[k] \in {"required", "optional"}
    /\ \A k \in Keys : Signature(fn)[k] \in {"required", "posonly"} => k \in KeysOf(m)

\* What the body of the callable returns for these keyword arguments.
CallResult(fn, m) == <<fn, m>>

\* json.dumps takes the value: ring returns the bell object itself, the
\* other callables a string or None.
JsonSerialisable(value) == value[1] # "ring"

\* payload = json.loads(body) of a well-formed POST
PayloadOf(req) ==
    [NoPayload EXCEPT !.name = req.name, !.hasArgs = req.hasArgs,
                      !.args = req.args, !.extra = req.extra]

\* payload["Command"]["Result"] = result
SetResult(payload, result) ==
    [payload EXCEPT !.hasResult = TRUE, !.result = result]

RaisesAfterCall(exc, key) ==
    [raised |-> exc, key |-> key, called |-> TRUE, value |-> NoValue]

Raises(exc, key) == [raised |-> exc, key |-> key, called |-> FALSE, value |-> NoValue]

\* The exception a body raises, when it raises
BodyError == "RuntimeError"

\* CallbackFunction.invoke(args), which Command.execute returns: the ways
\* it can end. The KeyError names the first refused key in the order of
\* the dict, which is the order of the request. A body that is called
\* returns its value or raises.
invoke(fn, args) ==
    IF args.type # "dict"
      THEN {Raises("TypeError", "-")}
      ELSE IF Undeclared(fn, args.map) # {}
        THEN {Raises("KeyError", k) : k \in Undeclared(fn, args.map)}
        ELSE IF ~Binds(fn, args.map)
          THEN {Raises("TypeError", "-")}
          ELSE {[raised |-> "none", key |-> "-", called |-> TRUE,
                 value |-> CallResult(fn, args.map)],
                [raised |-> BodyError, key |-> "-", called |-> TRUE,
                 value |-> NoValue]}

\* send_error(status) / send_response(200) without a command having been
\* looked up
Respond(status) ==
    /\ response' = [NoResponse EXCEPT !.status = status]
    /\ executed' = NotExecuted
    /\ invoked' = <<>>

\* send_error(status, message) with a message formatted from the command
\* name of the request and the exception: send_response_only encodes the
\* status line as latin-1, strictly, and raises UnicodeEncodeError for a
\* message it cannot encode. Nothing has been sent then.
send_error(status, name, exc, key) ==
    IF name \in NotLatin1 \/ key \in NotLatin1
      THEN response' = [NoResponse EXCEPT !.raised = "UnicodeEncodeError"]
      ELSE response' = [NoResponse EXCEPT !.status = status, !.name = name,
                                          !.exc = exc, !.key = key]

\* An exception that no except clause of the handler takes: it leaves
\* do_GET / do_POST and no response is sent.
Escapes(exc) ==
    /\ response' = [NoResponse EXCEPT !.raised = exc]
    /\ executed' = NotExecuted
    /\ invoked' = <<>>

\* The answer to a command that returned. onGetCmd: json.dumps(result),
\* then the status line and the body. do_POST: the result is put into the
\* payload, the status line and the headers are sent, then json.dumps of
\* the payload is written. json.dumps raises TypeError for a value that
\* is not serialisable, and no except clause takes it.
SendResult(req, result) ==
    IF req.method = "GET"
      THEN IF JsonSerialisable(result)
             THEN response' = [NoResponse EXCEPT !.status = 200,
                                   !.body = SetResult(NoPayload, result)]
             ELSE response' = [NoResponse EXCEPT !.raised = "TypeError"]
      ELSE IF JsonSerialisable(result)
             THEN response' = [NoResponse EXCEPT !.status = 200,
                                   !.body = SetResult(PayloadOf(req), result)]
             ELSE response' = [NoResponse EXCEPT !.status = 200,
                                                 !.raised = "TypeError"]

\* cmd = self.commandMap.get(name); 404 if None; result = cmd.execute(args),
\* 500 on any exception, else 200 with the result (onGetCmd and do_POST)
Dispatch(req, args) ==
    LET name == req.name
        cmd == CommandMapGet(commandMap.entries, name)
    IN  IF cmd = NoCommand
          THEN /\ send_error(404, name, "-", "-")
               /\ executed' = NotExecuted
               /\ invoked' = <<>>
          ELSE \E o \in invoke(cmd.fn, args) :
                 /\ executed' = [ran |-> TRUE, cmd |-> cmd, args |-> args,
                                 raised |-> o.raised, key |-> o.key, value |-> o.value]
                 /\ invoked' = IF o.called
                                 THEN <<[cmd |-> cmd, kwargs |-> args.map]>>
                                 ELSE <<>>
                 /\ IF o.raised = "none"
                      THEN SendResult(req, o.value)
                      ELSE send_error(500, name, o.raised, o.key)

\* len(self.commandMap) == 0, for a map that is not None
NoCommandsAvailable == commandMap.isNone \/ Len(commandMap.entries) = 0

GetCmdsRequest == [NoRequest EXCEPT !.method = "GET", !.path = "/cmds"]

\* GET /cmd?name=<name>&<key>=<value>... and GET /cmd without a name
GetCmdRequests ==
    {[NoRequest EXCEPT !.method = "GET", !.path = "/cmd", !.hasName = TRUE,
                       !.name = n, !.hasArgs = TRUE, !.args = DictArgs(m)] :
        n \in RequestNames, m \in ArgMaps}
    \cup {[NoRequest EXCEPT !.method = "GET", !.path = "/cmd",
                            !.hasArgs = TRUE, !.args = DictArgs(m)] : m \in ArgMaps}

ContentTypes == {"application/json", "text/plain"}

\* Bodies of a POST: bytes that are not UTF-8, text that is not JSON, a JSON
\* value that is no object, an object without "Command", a "Command" that
\* is no object, a "Command" without "Name", and a well-formed payload.
MalformedShapes ==
    {"notutf8", "notjson", "notobject", "noCommand", "commandNotObject", "noName"}

PostRequests ==
    {[NoRequest EXCEPT !.method = "POST", !.path = "/", !.contentType = ct,
                       !.shape = sh] : ct \in ContentTypes, sh \in MalformedShapes}
    \cup {[NoRequest EXCEPT !.method = "POST", !.path = "/", !.contentType = ct,
                            !.shape = "ok", !.hasName = TRUE, !.name = n,
                            !.extra = x] :
             ct \in ContentTypes, n \in RequestNames, x \in BOOLEAN}
    \cup {[NoRequest EXCEPT !.method = "POST", !.path = "/", !.contentType = ct,
                            !.shape = "ok", !.hasName = TRUE, !.name = n,
                            !.hasArgs = TRUE, !.args = a, !.extra = x] :
             ct \in ContentTypes, n \in RequestNames,
             a \in {DictArgs(m) : m \in ArgMaps} \cup {ListArgs}, x \in BOOLEAN}

\* verifyContentType("application/json")
verifyContentType(ct) == ct = "application/json"

\* The application is serving: run() sleeps in its loop, the HTTP thread
\* handles requests, and the workers are between two invoke() calls or,
\* the first of them, inside one and holding the data lock.
InitCmd ==
    /\ shutdownFlag = FALSE
    /\ sharedDict = [a |-> 0, b |-> 0]
    /\ \E holder \in {Free, WorkerTid(1)} :
          /\ dataLock = holder
          /\ wpc = [w \in Workers |->
                       IF WorkerTid(w) = holder THEN "invoke1" ELSE "wait"]
    /\ mainPc = "sleep"
    /\ mainErr = "none"
    /\ httpd = "thread"
    /\ signals = 0
    /\ httpPc = "handle"
    /\ rpc = [r \in Requests |-> "idle"]
    /\ snapshot = [r \in Requests |-> [a |-> 0, b |-> 0]]
    /\ port = TRUE
    /\ wkind = [w \in Workers |-> "WorkerThread"]
    /\ IdleSched
    /\ IdleSetup
    /\ commandMap \in {[isNone |-> n, entries |-> <<>>] : n \in BOOLEAN}
    /\ request = NoRequest
    /\ response = NoResponse
    /\ executed = NotExecuted
    /\ invoked = <<>>

\* RaspendApplication.addCommand(callbackMethod), while no request is
\* being handled
AddCommand(fn) ==
    /\ ~commandMap.isNone
    /\ request = NoRequest
    /\ NextId <= MaxCommands
    /\ commandMap' = [commandMap EXCEPT
                         !.entries = CommandMapAdd(@, Command(fn, NextId))]
    /\ UNCHANGED <<request, response, executed, invoked,
                   sharedVars, appVars, schedVars, setupVars>>

\* do_GET, path /cmds: 501 without commands, else onGetCmds, which waits
\* for the data lock, takes and releases it, and 200
DoGetCmds ==
    /\ request = NoRequest
    /\ request' = GetCmdsRequest
    /\ IF NoCommandsAvailable
         THEN Respond(501)
         ELSE dataLock = Free /\ Respond(200)
    /\ UNCHANGED <<commandMap, sharedVars, appVars, schedVars, setupVars>>

\* do_GET, path /cmd: 501 without commands, else onGetCmd(queryParams);
\* queryParams["name"] raises KeyError when the query has no name
DoGetCmd(req) ==
    /\ request = NoRequest
    /\ request' = req
    /\ IF NoCommandsAvailable
         THEN Respond(501)
         ELSE IF ~req.hasName
           THEN Escapes("KeyError")
           ELSE Dispatch(req, req.args)
    /\ UNCHANGED <<commandMap, sharedVars, appVars, schedVars, setupVars>>

\* do_POST
DoPost(req) ==
    /\ request = NoRequest
    /\ request' = req
    /\ IF commandMap.isNone
         THEN Respond(501)
         ELSE IF ~verifyContentType(req.contentType)
           THEN Respond(415)
           ELSE CASE req.shape = "notutf8"          -> Escapes("UnicodeDecodeError")
                  [] req.shape = "notjson"          -> Respond(500)
                  [] req.shape = "notobject"        -> Respond(400)
                  [] req.shape = "noCommand"        -> Respond(400)
                  [] req.shape = "commandNotObject" -> Escapes("AttributeError")
                  [] req.shape = "noName"           -> Respond(400)
                  [] req.shape = "ok" ->
                        Dispatch(req,
                                 IF req.hasArgs THEN req.args ELSE DictArgs(EmptyMap))
    /\ UNCHANGED <<commandMap, sharedVars, appVars, schedVars, setupVars>>

\* do_GET / do_POST has returned (or was left by an exception): the
\* request thread ends and the next request can be looked at
RequestDone ==
    /\ request # NoRequest
    /\ request' = NoRequest
    /\ response' = NoResponse
    /\ executed' = NotExecuted
    /\ invoked' = <<>>
    /\ UNCHANGED <<commandMap, sharedVars, appVars, schedVars, setupVars>>

NextCmd ==
    \/ \E fn \in Callables : AddCommand(fn)
    \/ DoGetCmds
    \/ \E req \in GetCmdRequests : DoGetCmd(req)
    \/ \E req \in PostRequests : DoPost(req)
    \/ RequestDone

SpecCmd == InitCmd /\ [][NextCmd]_vars


---------------------------------------------------------------------------
\* Properties of the command registry and the dispatch (SpecCmd)

\* C14: execute(args) with a key that is no parameter of the callable ends
\* with a KeyError that names such a key of args, and the callable is not
\* called.
C14_UndeclaredKeyRejected ==
    (/\ executed.ran
     /\ executed.args.type = "dict"
     /\ \E k \in KeysOf(executed.args.map) : Signature(executed.cmd.fn)[k] = Absent)
        => /\ executed.raised = "KeyError"
           /\ executed.key \in KeysOf(executed.args.map)
           /\ Signature(executed.cmd.fn)[executed.key] = Absent
           /\ invoked = <<>>

\* C14 witness: switchDoorBell(onoff) was executed with onoff and volume;
\* the KeyError names volume and nothing was called.
C14_Witness ==
    /\ executed.ran
    /\ executed.cmd.fn = "switchDoorBell"
    /\ KeysOf(executed.args.map) = {"onoff", "volume"}
    /\ executed.raised = "KeyError"
    /\ executed.key = "volume"
    /\ invoked = <<>>

\* C15 (as claimed): execute(args) with only parameters of the callable as
\* keys, which give a value to every parameter without default, calls the
\* callable exactly once with exactly these keyword arguments and returns
\* what it returned, or raises what it raised.
C15_DeclaredKeysInvoke ==
    (/\ executed.ran
     /\ executed.args.type = "dict"
     /\ \A k \in KeysOf(executed.args.map) : Signature(executed.cmd.fn)[k] # Absent
     /\ \A k \in Keys : Signature(executed.cmd.fn)[k] \in {"required", "posonly"}
                           => k \in KeysOf(executed.args.map))
        => /\ executed.raised \in {"none", BodyError}
           /\ invoked = <<[cmd |-> executed.cmd, kwargs |-> executed.args.map]>>
           /\ executed.raised = "none"
                 => executed.value = CallResult(executed.cmd.fn, executed.args.map)

\* C16: the names of the registry are unique after every add; adding a
\* name that is present leaves the number of entries unchanged, and a
\* lookup of an added name gives the command of the latest add.
C16_NamesUnique ==
    [][/\ \A i, j \in 1..Len(commandMap'.entries) :
              commandMap'.entries[i].name = commandMap'.entries[j].name => i = j
       /\ \A fn \in Callables :
              (commandMap'.entries # commandMap.entries /\ AddCommand(fn)) =>
                  /\ (CommandMapGet(commandMap.entries, getName(fn)) # NoCommand
                         => Len(commandMap'.entries) = Len(commandMap.entries))
                  /\ CommandMapGet(commandMap'.entries, getName(fn)).id = NextId
                  /\ CommandMapGet(commandMap'.entries, getName(fn)).fn = fn]_vars

\* C16 witness: a name was added twice; the registry holds one entry, the
\* command of the second add, and a request for the name was dispatched
\* to it.
C16_Witness ==
    /\ Len(commandMap.entries) = 1
    /\ commandMap.entries[1].id = 2
    /\ executed.ran
    /\ executed.cmd.id = 2

\* Requests that name a command: GET /cmd with a name, and a POST of type
\* application/json with a well-formed payload.
NamesCommand(req) ==
    \/ req.method = "GET" /\ req.path = "/cmd" /\ req.hasName
    \/ req.method = "POST" /\ verifyContentType(req.contentType) /\ req.shape = "ok"

RegistryEmpty == commandMap.isNone \/ commandMap.entries = <<>>

NameRegistered(name) ==
    \E i \in 1..Len(commandMap.entries) : commandMap.entries[i].name = name

\* C18 (as claimed): without any registered command GET /cmds, GET /cmd
\* and a POST with a command payload are all answered 501.
C18_NoCommands501 ==
    (/\ RegistryEmpty
     /\ \/ request = GetCmdsRequest
        \/ request.method = "GET" /\ request.path = "/cmd"
        \/ NamesCommand(request))
        => response.status = 501

\* C19: a request naming a command that a non-empty registry does not hold
\* is answered 404; no command is executed and no callable is called.
C19_UnknownCommand404 ==
    (/\ NamesCommand(request)
     /\ ~RegistryEmpty
     /\ ~NameRegistered(request.name))
        => /\ response.status = 404
           /\ ~executed.ran
           /\ invoked = <<>>

\* C19 witness: a POST with arguments names a command that the registry of
\* two commands does not hold, and got 404.
C19_Witness ==
    /\ Len(commandMap.entries) = 2
    /\ request.method = "POST"
    /\ request.shape = "ok"
    /\ request.name = "theDoorBell.selfDestruct"
    /\ KeysOf(request.args.map) = {"onoff"}
    /\ response.status = 404

\* C20 (as claimed): a POST of type application/json with a malformed body
\* is answered 400 and no command is executed.
C20_MalformedBody400 ==
    (/\ request.method = "POST"
     /\ ~commandMap.isNone
     /\ verifyContentType(request.contentType)
     /\ request.shape \in MalformedShapes)
        => /\ response.status = 400
           /\ ~executed.ran
           /\ invoked = <<>>

\* C22: a command request with a key that is no parameter of the callable
\* is answered without a change of the shared dictionary, of the lock or
\* its holder, of the shutdown flag, of the registry or of any worker or
\* data request, and without the callable being called.
C22_ValidationFailureFrame ==
    [][(/\ request = NoRequest
        /\ NamesCommand(request')
        /\ NameRegistered(request'.name)
        /\ request'.args.type = "dict"
        /\ \E k \in KeysOf(request'.args.map) :
              Signature(CommandMapGet(commandMap.entries, request'.name).fn)[k] = Absent)
           => /\ UNCHANGED <<sharedDict, dataLock, shutdownFlag, commandMap>>
              /\ UNCHANGED <<wpc, rpc, snapshot, httpPc, mainPc>>
              /\ invoked' = <<>>]_vars

\* C22 witness: while a worker holds the data lock inside invoke(), a
\* request for switchDoorBell with the key volume was answered 500; the
\* worker still holds the lock.
C22_Witness ==
    /\ dataLock = WorkerTid(1)
    /\ wpc[1] = "invoke1"
    /\ executed.ran
    /\ executed.cmd.fn = "switchDoorBell"
    /\ executed.raised = "KeyError"
    /\ executed.key = "volume"
    /\ response.status = 500
    /\ invoked = <<>>

\* C25 (as claimed): a callable with a positional-only parameter is
\* refused by addCommand, so the registry never holds a command for one.
C25_PositionalOnlyRejected ==
    \A i \in 1..Len(commandMap.entries) :
        \A k \in Keys : Signature(commandMap.entries[i].fn)[k] # "posonly"

\* C23 (as claimed): a POST whose command returned is answered 200 with
\* the payload of the request, Command.Result set to what the callable
\* returned and every other member as it came.
C23_PostReturnsPayload ==
    (request.method = "POST" /\ executed.ran /\ executed.raised = "none")
        => /\ response.status = 200
           /\ response.raised = "none"
           /\ response.body = SetResult(PayloadOf(request), executed.value)

\* C21 (as claimed): when the execution of a command that was found ends
\* with an exception (a key that is no parameter, or the body raising),
\* the request is answered 500 with a message that carries the name of the
\* command and the exception, and no exception leaves the handler.
C21_ExecutionFailure500 ==
    (executed.ran /\ executed.raised # "none")
        => /\ response.status = 500
           /\ response.raised = "none"
           /\ response.name = executed.cmd.name
           /\ response.exc = executed.raised
           /\ response.key = executed.key


---------------------------------------------------------------------------
\* Setting up the application: the create...Thread methods (SpecSetup)

\* Bound of the setup model: length of self.__workers.
MaxWorkerList == 2

\* What a caller can pass as repetitionType: a ScheduleRepetitionType, None,
\* or something else (here the string "daily").
RepetitionTypeArgs == ScheduleRepetitionTypes \cup {"None", "daily"}

\* What a caller can pass as repetitionFactor.
RepetitionFactorArgs == (0 - 1)..MaxFactor

RepetitionFactorRejectedBelowZero(factor) == factor < 0

\* if repetitionFactor < 1: raise ValueError
RepetitionFactorRejected(factor) == factor < 1

\* ScheduledWorkerThread.__init__: the exception it raises, "none" when the
\* thread object is constructed. WorkerThreadBase.__init__ tests the
\* handler, then the repetition type is tested, then the factor.
ScheduledWorkerThreadInit(handlerOk, type, factor) ==
    IF ~handlerOk
      THEN "TypeError"
      ELSE IF type # "None" /\ type \notin ScheduleRepetitionTypes
        THEN "TypeError"
        ELSE IF RepetitionFactorRejected(factor) THEN "ValueError" ELSE "none"

\* WorkerThread.__init__
WorkerThreadInit(handlerOk) == IF ~handlerOk THEN "TypeError" ELSE "none"

\* The call made last: how it ended, and what it returned.
Call(method, handlerOk, hasSetter, type, factor, raised, len) ==
    [method |-> method, handlerOk |-> handlerOk, hasSetter |-> hasSetter,
     repetitionType |-> type, repetitionFactor |-> factor,
     sharedDictSet |-> handlerOk /\ hasSetter,
     raised |-> raised, returned |-> IF raised = "none" THEN len ELSE 0]

InitSetup ==
    /\ InitShared
    /\ IdleApp
    /\ port = TRUE
    /\ wkind = [w \in Workers |-> "WorkerThread"]
    /\ IdleSched
    /\ IdleCmd
    /\ IdleSetup

\* RaspendApplication.createScheduledWorkerThread: isinstance test of the
\* handler, setSharedDict, the constructor, then append and return len
createScheduledWorkerThread(handlerOk, type, factor) ==
    LET raised == IF ~handlerOk
                    THEN "TypeError"
                    ELSE ScheduledWorkerThreadInit(handlerOk, type, factor)
        worker == [kind |-> "ScheduledWorkerThread",
                   repetitionType |-> IF type = "None" THEN "DAILY" ELSE type,
                   repetitionFactor |-> factor]
    IN  /\ lastCall = NoCall
        /\ raised = "none" => Len(workerList) < MaxWorkerList
        /\ workerList' = IF raised = "none" THEN Append(workerList, worker)
                                            ELSE workerList
        /\ lastCall' = Call("createScheduledWorkerThread", handlerOk, handlerOk,
                            type, factor, raised, Len(workerList'))
        /\ UNCHANGED <<sharedVars, appVars, schedVars, cmdVars>>

\* RaspendApplication.createWorkerThread
createWorkerThread(handlerOk) ==
    LET raised == IF ~handlerOk THEN "TypeError" ELSE WorkerThreadInit(handlerOk)
        worker == [kind |-> "WorkerThread", repetitionType |-> "-",
                   repetitionFactor |-> 1]
    IN  /\ lastCall = NoCall
        /\ raised = "none" => Len(workerList) < MaxWorkerList
        /\ workerList' = IF raised = "none" THEN Append(workerList, worker)
                                            ELSE workerList
        /\ lastCall' = Call("createWorkerThread", handlerOk, handlerOk, "-", 1,
                            raised, Len(workerList'))
        /\ UNCHANGED <<sharedVars, appVars, schedVars, cmdVars>>

\* RaspendApplication.createDataAcquisitionThread: isinstance test of the
\* handler, then dataAcquisitionHandler.setSharedDict(...), a method that
\* DataAcquisitionHandler does not define: the call raises AttributeError
\* unless the class of the handler defines it; then the constructor,
\* append and return len.
createDataAcquisitionThread(handlerOk, hasSetter) ==
    LET raised == IF ~handlerOk
                    THEN "TypeError"
                    ELSE IF ~hasSetter THEN "AttributeError" ELSE "none"
        worker == [kind |-> "DataAcquisitionThread", repetitionType |-> "-",
                   repetitionFactor |-> 1]
    IN  /\ lastCall = NoCall
        /\ raised = "none" => Len(workerList) < MaxWorkerList
        /\ workerList' = IF raised = "none" THEN Append(workerList, worker)
                                            ELSE workerList
        /\ lastCall' = Call("createDataAcquisitionThread", handlerOk, hasSetter,
                            "-", 1, raised, Len(workerList'))
        /\ UNCHANGED <<sharedVars, appVars, schedVars, cmdVars>>

\* RaspendApplication.createPublishDataThread: PublishDataHandler defines
\* setSharedDict
createPublishDataThread(handlerOk) ==
    LET raised == IF ~handlerOk THEN "TypeError" ELSE "none"
        worker == [kind |-> "PublishDataThread", repetitionType |-> "-",
                   repetitionFactor |-> 1]
    IN  /\ lastCall = NoCall
        /\ raised = "none" => Len(workerList) < MaxWorkerList
        /\ workerList' = IF raised = "none" THEN Append(workerList, worker)
                                            ELSE workerList
        /\ lastCall' = Call("createPublishDataThread", handlerOk, handlerOk, "-", 1,
                            raised, Len(workerList'))
        /\ UNCHANGED <<sharedVars, appVars, schedVars, cmdVars>>

\* The call has returned or raised; the setup code goes on to its next
\* call.
CallReturned ==
    /\ lastCall # NoCall
    /\ lastCall' = NoCall
    /\ UNCHANGED <<workerList, sharedVars, appVars, schedVars, cmdVars>>

NextSetup ==
    \/ \E handlerOk \in BOOLEAN, type \in RepetitionTypeArgs,
          factor \in RepetitionFactorArgs :
            createScheduledWorkerThread(handlerOk, type, factor)
    \/ \E handlerOk \in BOOLEAN : createWorkerThread(handlerOk)
    \/ \E handlerOk, hasSetter \in BOOLEAN :
            createDataAcquisitionThread(handlerOk, hasSetter)
    \/ \E handlerOk \in BOOLEAN : createPublishDataThread(handlerOk)
    \/ CallReturned

SpecSetup == InitSetup /\ [][NextSetup]_vars


---------------------------------------------------------------------------
\* Properties of the setup (SpecSetup)

\* C17: createScheduledWorkerThread with repetitionFactor < 1 ends with an
\* error raised by the call itself (ValueError when handler and repetition
\* type are acceptable, else the TypeError of the earlier test), leaves
\* self.__workers as it was and returns no length; no worker in the list
\* has a factor below 1, and no thread has been started.
C17_InvalidFactorRejected ==
    [][/\ (/\ lastCall'.method = "createScheduledWorkerThread"
           /\ lastCall'.repetitionFactor < 1)
              => /\ lastCall'.raised \in {"ValueError", "TypeError"}
                 /\ (/\ lastCall'.handlerOk
                     /\ lastCall'.repetitionType \in ScheduleRepetitionTypes \cup {"None"})
                        => lastCall'.raised = "ValueError"
                 /\ workerList' = workerList
                 /\ lastCall'.returned = 0
       /\ \A i \in 1..Len(workerList') :
              workerList'[i].kind = "ScheduledWorkerThread"
                  => workerList'[i].repetitionFactor >= 1
       /\ \A w \in Workers : wpc'[w] = "notstarted"]_vars

\* C17 witness: after one worker was registered, a call with factor 0 and
\* an acceptable handler and type ended with ValueError; the list still
\* holds the one worker.
C17_Witness ==
    /\ lastCall.method = "createScheduledWorkerThread"
    /\ lastCall.handlerOk
    /\ lastCall.repetitionType = "HOURLY"
    /\ lastCall.repetitionFactor = 0
    /\ lastCall.raised = "ValueError"
    /\ Len(workerList) = 1

\* C29 (as claimed): each create...Thread call with a handler of the
\* required base type (and, for a scheduled worker, a valid repetition
\* type and factor) hands the shared dictionary to the handler, appends
\* exactly one worker and returns the new length of the list; a call with
\* a handler of another type raises TypeError and leaves the list as it
\* was.
C29_CreateAddsOneWorker ==
    [][(lastCall = NoCall /\ lastCall' # NoCall) =>
          /\ (/\ lastCall'.handlerOk
               /\ lastCall'.repetitionType \in ScheduleRepetitionTypes \cup {"None", "-"}
               /\ lastCall'.repetitionFactor >= 1)
                 => /\ lastCall'.raised = "none"
                    /\ lastCall'.sharedDictSet
                    /\ Len(workerList') = Len(workerList) + 1
                    /\ SubSeq(workerList', 1, Len(workerList)) = workerList
                    /\ lastCall'.returned = Len(workerList')
          /\ ~lastCall'.handlerOk
                 => /\ lastCall'.raised = "TypeError"
                    /\ workerList' = workerList]_vars

---------------------------------------------------------------------------
\* GET /data/<path>: the walk through the shared dictionary (SpecData)

MaxSegments == 3

\* Shared dictionaries: what is below a place that is there belongs to a
\* dictionary.
Trees ==
    {t \in [Addr -> NodeKinds] :
        /\ t[<<>>] = "dict"
        /\ \A p \in Addr \ {<<>>} :
              t[p] # "none" => t[SubSeq(p, 1, Len(p) - 1)] = "dict"}

\* Paths after "/data/": one to MaxSegments segments
DataPaths == UNION {[1..n -> Segs] : n \in 1..MaxSegments}

\* type(data) is dict and part in data.keys()
IsKey(tree, at, part) ==
    /\ tree[at] = "dict"
    /\ Append(at, part) \in Addr
    /\ tree[Append(at, part)] # "none"

\* for part in pathParts[1:]: if ...: data = data[part]. A part that is
\* no key of data is passed over and the loop goes on with the next part.
RECURSIVE Walk(_, _, _)
Walk(tree, at, parts) ==
    IF parts = <<>>
      THEN at
      ELSE IF IsKey(tree, at, Head(parts))
             THEN Walk(tree, Append(at, Head(parts)), Tail(parts))
             ELSE Walk(tree, at, Tail(parts))

\* self.path.split('/')[1:] of "/data/<segments>": "data", then the
\* segments
pathParts(segments) == <<"data">> \o segments

\* The value at a place, as json.dumps writes it
Subtree(tree, at) ==
    [q \in Addr |-> IF at \o q \in Addr THEN tree[at \o q] ELSE "none"]

InitData ==
    /\ shutdownFlag = FALSE
    /\ dataLock = Free
    /\ sharedDict \in Trees
    /\ IdleApp
    /\ port = TRUE
    /\ wkind = [w \in Workers |-> "WorkerThread"]
    /\ IdleSched
    /\ IdleCmd
    /\ IdleSetup

\* do_GET for a path that starts with "/data/": onGetDetailedDataPath
\* takes the lock, walks, serialises what it arrived at and releases the
\* lock; then 200 with that value.
DoGetData(segments) ==
    /\ request = NoRequest
    /\ dataLock = Free
    /\ request' = [NoRequest EXCEPT !.method = "GET", !.path = "/data/",
                                    !.segments = segments]
    /\ response' = [NoResponse EXCEPT
                       !.status = 200,
                       !.data = Subtree(sharedDict,
                                        Walk(sharedDict, <<>>, pathParts(segments)))]
    /\ UNCHANGED <<commandMap, executed, invoked,
                   sharedVars, appVars, schedVars, setupVars>>

NextData ==
    \/ \E segments \in DataPaths : DoGetData(segments)
    \/ RequestDone

SpecData == InitData /\ [][NextData]_vars

\* The place the claim names: the segments are followed from the shared
\* dictionary until one is no key of the mapping reached.
RECURSIVE Resolve(_, _, _)
Resolve(tree, at, segments) ==
    IF segments = <<>>
      THEN at
      ELSE IF IsKey(tree, at, Head(segments))
             THEN Resolve(tree, Append(at, Head(segments)), Tail(segments))
             ELSE at

\* C24 (as claimed): GET /data/<path> is answered with the value at the
\* place reached by following the segments of the path from the shared
\* dictionary up to the first segment that is no key there.
C24_DeepestResolvedAncestor ==
    (request.method = "GET" /\ request.path = "/data/")
        => /\ response.status = 200
           /\ response.data = Subtree(sharedDict,
                                      Resolve(sharedDict, <<>>, request.segments))

---------------------------------------------------------------------------
\* WorkerThread.run / PublishDataThread.run against a clock (SpecFixed).
\* The clock counts half seconds. prepare() and invoke() take no time, a
\* wait that times out returns at waitTimeout or one tick later, and the
\* thread comes to its first statement at most one waitTimeout after
\* start().

MaxPeriod == 2
MaxTicks == 7

FixedKinds == {"WorkerThread", "PublishDataThread"}

FixedTid == WorkerTid(1)

WaitEndAtOnce(start, period) == start

\* When shutdownEvent.wait(self.waitTimeout) times out, at the earliest
WaitEnd(start, period) == start + period

\* How long invoke() runs, in half seconds.
InvokeTicks == {0, 1}

WaitStartAtInvokeBegin(begin, end) == begin

\* shutdownEvent.wait(self.waitTimeout) is called after invoke() has
\* returned and the lock is released: the period counts from there.
WaitStart(begin, end) == end

LoopExitsNever(flag) == FALSE

\* while not self.shutdownEvent.is_set()
LoopExits(flag) == flag

InitFixed ==
    /\ shutdownFlag = FALSE
    /\ dataLock = Free
    /\ sharedDict = [count |-> 0]
    /\ IdleApp
    /\ port = TRUE
    /\ \E k \in FixedKinds : wkind = [w \in Workers |-> k]
    /\ now = 0
    /\ sPc = "notstarted"
    /\ repetitionType = "DAILY"
    /\ repetitionFactor = 1
    /\ scheduledStart = 0
    /\ factors = <<0, 0, 0, 0, 0>>
    /\ t0 = 0
    /\ timeout \in 1..MaxPeriod
    /\ lastRead = 0
    /\ fired = <<>>
    /\ firedAt = <<>>
    /\ IdleCmd
    /\ IdleSetup

fixedFrame == <<appVars, cmdVars, setupVars, schedCfg, factors, timeout, lastRead, fired>>

\* The thread begins to run.
FixedStart ==
    /\ sPc = "notstarted"
    /\ sPc' = "prepare"
    /\ UNCHANGED <<sharedVars, now, t0, firedAt, fixedFrame>>

\* acquire, prepare(), release
FixedPrepare ==
    /\ sPc = "prepare"
    /\ dataLock = Free
    /\ sPc' = "check"
    /\ UNCHANGED <<sharedVars, now, t0, firedAt, fixedFrame>>

\* The loop test, after prepare() or after a wait: "checkSet" is the test
\* after a wait that returned True.
FixedLoopTest ==
    /\ sPc \in {"check", "checkSet"}
    /\ sPc' = IF LoopExits(shutdownFlag) THEN "done" ELSE "acquire"
    /\ UNCHANGED <<sharedVars, now, t0, firedAt, fixedFrame>>

\* self.accessLock.acquire(); invoke() begins
FixedInvokeBegin ==
    /\ sPc = "acquire"
    /\ Acquire(FixedTid)
    /\ sPc' = "invoke"
    /\ firedAt' = Append(firedAt, now)
    /\ UNCHANGED <<shutdownFlag, sharedDict, now, t0, fixedFrame>>

\* invoke() adds one to sharedDict["count"] and returns after d half
\* seconds; release; the wait begins
FixedInvokeEnd ==
    /\ sPc = "invoke"
    /\ sharedDict' = [sharedDict EXCEPT !.count = @ + 1]
    /\ Release(FixedTid)
    /\ \E d \in InvokeTicks :
         /\ now + d <= MaxTicks
         /\ now' = now + d
    /\ sPc' = "wait"
    /\ t0' = WaitStart(now, now')
    /\ lastRead' = now'
    /\ UNCHANGED <<shutdownFlag, firedAt, appVars, cmdVars, setupVars, schedCfg, factors,
                   timeout, fired>>

\* wait(waitTimeout) returns False: the flag stayed unset for waitTimeout
FixedWaitTimeout ==
    /\ sPc = "wait"
    /\ ~shutdownFlag
    /\ \E j \in Jitter : now = WaitEnd(t0, timeout) + j
    /\ sPc' = "check"
    /\ UNCHANGED <<sharedVars, now, t0, firedAt, fixedFrame>>

\* wait(waitTimeout) returns True at once when the flag is or becomes set
FixedWaitSignaled ==
    /\ sPc = "wait"
    /\ shutdownFlag
    /\ sPc' = "checkSet"
    /\ UNCHANGED <<sharedVars, now, t0, firedAt, fixedFrame>>

\* RaspendApplication.run sets the flag
FixedShutdown ==
    /\ ~shutdownFlag
    /\ EventSet
    /\ UNCHANGED <<dataLock, sharedDict, now, sPc, t0, firedAt, fixedFrame>>

\* Half a second passes: while the thread has not begun to run, while it
\* waits, or after it has returned
FixedTick ==
    /\ now < MaxTicks
    /\ \/ sPc = "notstarted" /\ now < timeout
       \/ sPc = "wait" /\ ~shutdownFlag
            /\ \E j \in Jitter : now < WaitEnd(t0, timeout) + j
       \/ sPc = "done"
    /\ now' = now + 1
    /\ UNCHANGED <<sharedVars, sPc, t0, firedAt, fixedFrame>>

NextFixed ==
    \/ FixedStart
    \/ FixedPrepare
    \/ FixedLoopTest
    \/ FixedInvokeBegin
    \/ FixedInvokeEnd
    \/ FixedWaitTimeout
    \/ FixedWaitSignaled
    \/ FixedShutdown
    \/ FixedTick

SpecFixed == InitFixed /\ [][NextFixed]_vars

Lateness ==
    LET n == Len(firedAt)
        due == now - n * timeout
        last == IF n = 0 THEN 0 ELSE firedAt[n] - (n - 1) * timeout
    IN  IF due > last THEN due ELSE last

C27_InvokeThenOneWait ==
    [][/\ (sPc = "invoke" /\ sPc' # "invoke")
              => (sPc' = "wait" /\ dataLock' = Free /\ t0' = now')
       /\ (sPc = "wait" /\ sPc' # "wait")
              => \/ sPc' = "check" /\ ~shutdownFlag /\ now >= t0 + timeout
                 \/ sPc' = "checkSet" /\ shutdownFlag
       /\ (sPc = "checkSet" /\ sPc' # "checkSet")
              => (sPc' = "done" /\ firedAt' = firedAt)
       /\ (sPc' = "acquire" /\ sPc # "acquire") => sPc = "check"
       /\ (Len(firedAt') > Len(firedAt) /\ Len(firedAt) > 0)
              => now >= firedAt[Len(firedAt)] + timeout]_vars

\* C27 witness: after two invoke() calls the flag was set during the
\* second wait, before its period was over, and the worker has returned.
C27_Witness ==
    /\ sPc = "done"
    /\ Len(firedAt) = 2
    /\ shutdownFlag
    /\ t0 = firedAt[2]
    /\ now < t0 + timeout

---------------------------------------------------------------------------
\* Transport-boundary reads and the lock (specification Spec)

\* C31 (as claimed): a request thread that has finished its read of the
\* shared dictionary, by sending the response or by failing to serialise it,
\* no longer holds the data lock.
C31_LockFreeAfterRead ==
    \A r \in Requests : rpc[r] \in {"done", "raised"} => dataLock # RequestTid(r)

---------------------------------------------------------------------------
\* Invocations after the shutdown flag is set (specification Spec)

\* A worker is queued for invoke() when it has passed its flag test (or its
\* wait has timed out, for the scheduled classes) and is at acquire().
QueuedForInvoke(w) == wpc[w] = "invAcq"

\* C32: once the flag is set no worker joins the queue for invoke(): the only
\* invoke() a worker can still start is the one it was already queued for
\* when the flag was set, and an invoke() is started only from the queue, so
\* each worker starts at most one further invoke() and never two.
C32_AtMostOneInvokeAfterFlag ==
    [][\A w \in Workers :
          /\ (shutdownFlag /\ QueuedForInvoke(w)') => QueuedForInvoke(w)
          /\ (wpc'[w] = "invoke1" /\ wpc[w] # "invoke1") => QueuedForInvoke(w)
      ]_vars

\* The flag is set while a worker is queued behind a lock holder, and a
\* worker started its last invoke() with the flag set.
C32_Witness ==
    /\ shutdownFlag
    /\ \E w \in Workers : wpc[w] = "invoke1"
    /\ \E w \in Workers : wpc[w] = "done"

---------------------------------------------------------------------------
\* The state run() leaves behind (specification Spec)

RunFinished == mainPc \in {"returned", "raised", "failed"}

HttpTerminated == httpPc \in {"notstarted", "closed"}

\* C33 (as claimed): whenever run() has finished, by returning or by an
\* exception, the shutdown flag is set and every thread run() started (the
\* workers and the HTTP server thread) has terminated.
C33_NothingLeftRunning ==
    RunFinished =>
        /\ shutdownFlag
        /\ \A w \in Workers : wpc[w] = "notstarted" \/ WorkerJoined(w)
        /\ HttpTerminated

---------------------------------------------------------------------------
\* Scheduled invocations are never early (specification SpecSched)

\* C34: every invoke() of the calendar-scheduled worker starts at or after
\* the target time of its slot, and none starts before scheduledStart.
C34_NeverEarly ==
    \A i \in 1..Len(firedAt) :
        /\ firedAt[i] >= fired[i]
        /\ firedAt[i] >= scheduledStart

\* A start time ahead of the clock: the first invoke() starts exactly at
\* scheduledStart and a second one has started in a later slot.
C34_Witness ==
    /\ Len(firedAt) >= 2
    /\ scheduledStart > 0
    /\ fired[1] = scheduledStart
    /\ firedAt[1] = scheduledStart
    /\ fired[2] > fired[1]

---------------------------------------------------------------------------
\* Spacing of fixed-interval invocations (specification SpecFixed)

\* C35: an invoke() of the fixed-interval worker that is not the first
\* starts at least one period after the previous invoke() returned, and the
\* starts of two consecutive calls are at least one period apart.
C35_PeriodBetweenInvokes ==
    /\ (sPc = "invoke" /\ Len(firedAt) >= 2)
          => /\ firedAt[Len(firedAt)] >= lastRead + timeout
             /\ lastRead >= firedAt[Len(firedAt) - 1]
    /\ \A i \in 1..(Len(firedAt) - 1) : firedAt[i + 1] >= firedAt[i] + timeout

\* A second invoke() is running; the first one took half a second, and the
\* second started exactly one period after the first returned.
C35_Witness ==
    /\ sPc = "invoke"
    /\ Len(firedAt) = 2
    /\ lastRead = firedAt[1] + 1
    /\ firedAt[2] = lastRead + timeout

---------------------------------------------------------------------------
\* Progress on the data lock (specification SpecLock): the application has
\* started its threads and sleeps in its main loop, no shutdown is requested,
\* and every handler body and every read returns.

InitLock ==
    /\ InitShared
    /\ mainPc = "sleep"
    /\ mainErr = "none"
    /\ httpd = "thread"
    /\ signals = 0
    /\ port = TRUE
    /\ wkind \in [Workers -> WorkerKinds]
    /\ wpc = [w \in Workers |-> FirstPc(wkind[w])]
    /\ httpPc = "check"
    /\ rpc = [r \in Requests |-> "idle"]
    /\ snapshot = [r \in Requests |-> [a |-> 0, b |-> 0]]
    /\ IdleSched
    /\ IdleCmd
    /\ IdleSetup

\* The steps of one worker thread, and of one request thread.
WorkerRuns(w) ==
    \/ PrepareAcquire(w)
    \/ PrepareRelease(w)
    \/ LoopTest(w)
    \/ InvokeAcquire(w)
    \/ InvokeWrite1(w)
    \/ InvokeWrite2(w)
    \/ WaitTimeout(w)

RequestRuns(r) ==
    \/ ReqAcquire(r)
    \/ ReqRead1(r)
    \/ ReqRead2(r)
    \/ ReqListCmds(r)
    \/ ReqExecReturn(r)

NextLock ==
    \/ \E w \in Workers : PrepareAcquire(w)
    \/ \E w \in Workers : PrepareRelease(w)
    \/ \E w \in Workers : LoopTest(w)
    \/ \E w \in Workers : InvokeAcquire(w)
    \/ \E w \in Workers : InvokeWrite1(w)
    \/ \E w \in Workers : InvokeWrite2(w)
    \/ \E w \in Workers : WaitTimeout(w)
    \/ HttpLoopTest
    \/ HttpHandleTimeout
    \/ \E k \in RequestKinds : HttpAccept(k)
    \/ \E r \in Requests : ReqAcquire(r)
    \/ \E r \in Requests : ReqRead1(r)
    \/ \E r \in Requests : ReqRead2(r)
    \/ \E r \in Requests : ReqListCmds(r)
    \/ \E r \in Requests : ReqExecReturn(r)

\* The operating system runs every thread that can take a step. A thread
\* blocked in acquire() can take a step only while the lock is free, and
\* threading.Lock does not say which of the threads blocked in acquire()
\* proceeds after a release(): nothing stronger than weak fairness of each
\* thread holds.
LockFairness ==
    /\ \A w \in Workers : WF_vars(WorkerRuns(w))
    /\ \A r \in Requests : WF_vars(RequestRuns(r))

SpecLock == InitLock /\ [][NextLock]_vars /\ LockFairness

WorkerTrying(w)  == wpc[w] \in {"prepAcq", "invAcq"}
RequestTrying(r) == rpc[r] \in {"acqData", "acqCmds"}

\* C36 (as claimed): every thread that is at acquire() eventually holds the
\* lock, whatever the other threads do.
C36_EveryAcquireSucceeds ==
    /\ \A w \in Workers : WorkerTrying(w) ~> (dataLock = WorkerTid(w))
    /\ \A r \in Requests : RequestTrying(r) ~> (dataLock = RequestTid(r))

\* C36 (amended): no thread is at acquire() while it holds the lock; every
\* holder releases the lock; and while a thread is at acquire() the lock does
\* not stay free: that thread or another one takes it.
C36_NoDeadlockNoReentry ==
    /\ [](\A w \in Workers : WorkerTrying(w) => dataLock # WorkerTid(w))
    /\ [](\A r \in Requests : RequestTrying(r) => dataLock # RequestTid(r))
    /\ (dataLock # Free) ~> (dataLock = Free)
    /\ \A w \in Workers : WorkerTrying(w) ~> (dataLock # Free)
    /\ \A r \in Requests : RequestTrying(r) ~> (dataLock # Free)

\* One worker and the request thread are at acquire() while the other worker
\* is inside invoke().
C36_Witness ==
    /\ wpc[1] = "invAcq"
    /\ wpc[2] = "invoke2"
    /\ \E r \in Requests : rpc[r] = "acqData"

---------------------------------------------------------------------------
\* The HTTP server thread after the flag is set (specification Spec)

\* A request thread is blocked at acquire() behind a worker that holds the
\* lock.
RequestWaitsForWorker(r) ==
    /\ rpc[r] \in {"acqData", "acqCmds"}
    /\ \E w \in Workers : dataLock = WorkerTid(w)

\* C37 (as claimed): once the server thread has left its serve loop it
\* terminates without waiting for any worker: it is never inside
\* server_close() waiting for a request thread that waits for a worker.
C37_CloseWaitsForNoWorker ==
    httpPc = "closing" => \A r \in Requests : ~RequestWaitsForWorker(r)

---------------------------------------------------------------------------
\* Termination of the alignment loop (specification SpecSchedLive)

\* The thread that runs the alignment loop keeps running: a pass of the loop
\* is taken while its test holds, and the loop is left once it fails. The
\* clock moves by less than one period during the whole loop (a pass is an
\* addition and a comparison, the shortest period is one second).
SchedFairness ==
    /\ WF_vars(SchedAlignStep)
    /\ WF_vars(SchedAlignDone)

SpecSchedLive == InitSched /\ [][NextSched]_vars /\ SchedFairness

=============================================================================
